---- MODULE Spec2Model ----
(***************************************************************************)
(* Model of api_queries.py: the study search (collect_studies), the        *)
(* series/instance enumeration (_create_instance_dict), the review step    *)
(* (review_studies) and the retrieval and folder layout                    *)
(* (retrieve_studies, retrieve_study_from_id, _retrieve_vna), together     *)
(* with the default series-name extractor/sanitizer (get_series_name).     *)
(*                                                                         *)
(* Text is modelled as a sequence of one-character strings, so that        *)
(* find / slice / replace / lower / "in" act as they do on Python str.     *)
(* The three fixed pieces of the metadata marker and the closing           *)
(* "</Value>" are single symbols of such a sequence.                       *)
(***************************************************************************)
EXTENDS Integers, Sequences, FiniteSets, TLC

VARIABLES
    doc,         \* SpecName: the parts <<pre, description, post>> of r.text
    name_out,    \* SpecName: result of get_series_name, or Unset
    options,     \* the options dict (search_type, overwrite, review, exclude_terms, ...)
    query_terms, \* list of query terms
    vna,         \* what the archive holds: per study the series listing, per series
                 \* the instance listing and the SeriesDescription of its metadata
    pc,          \* position of the single thread of control
    err,         \* the exception that ended the run, or "none"
    cs,          \* locals of collect_studies / _create_instance_dict
    study_dict,  \* collect_studies' result mapping (insertion-ordered)
    rv,          \* locals of retrieve_studies: the studies still to retrieve
    rs,          \* locals of retrieve_study_from_id
    fs,          \* the filesystem under options['save_dir']
    fs0,         \* the filesystem as the run found it
    gets         \* every HTTP GET issued so far, with the number of times it was issued

vars == <<doc, name_out, options, query_terms, vna, pc, err, cs, study_dict, rv, rs, fs, fs0, gets>>

Unset == <<"unset">>

----------------------------------------------------------------------------
(* HTTP *)

\* a GET: the study search for a query term, the series listing of a study, the
\* instance listing of a series, the metadata of a series, or an instance
Get(req, term, study, series, instance) ==
    [req |-> req, term |-> term, study |-> study, series |-> series, instance |-> instance]

NoGets == [g \in {} |-> 0]

\* requests.get(url, auth=(user, pw))
Issue(g) ==
    gets' = [x \in DOMAIN gets \cup {g} |->
                IF x = g THEN (IF g \in DOMAIN gets THEN gets[g] + 1 ELSE 1) ELSE gets[x]]

\* the status codes the archive answers with
Statuses == {200, 204, 403, 404, 500}

Abort(e) == pc' = "aborted" /\ err' = e

----------------------------------------------------------------------------
(* Python str operations on sequences of characters *)

RECURSIVE FindFrom(_, _, _)
\* smallest 0-based i >= from with txt[i:i+len(pat)] = pat, or -1
FindFrom(txt, pat, from) ==
    IF from + Len(pat) > Len(txt) THEN -1
    ELSE IF SubSeq(txt, from + 1, from + Len(pat)) = pat THEN from
    ELSE FindFrom(txt, pat, from + 1)

\* str.find
Find(txt, pat) == FindFrom(txt, pat, 0)

\* pat in txt
Contains(txt, pat) == Find(txt, pat) # -1

\* one bound of a slice: negative counts from the end, then clamped to [0, len]
SliceBound(n, i) ==
    LET j == IF i < 0 THEN i + n ELSE i
    IN  IF j < 0 THEN 0 ELSE IF j > n THEN n ELSE j

\* txt[a:b]
PySlice(txt, a, b) == SubSeq(txt, SliceBound(Len(txt), a) + 1, SliceBound(Len(txt), b))

UpperLetters == <<"A","B","C","D","E","F","G","H","I","J","K","L","M",
                  "N","O","P","Q","R","S","T","U","V","W","X","Y","Z">>
LowerLetters == <<"a","b","c","d","e","f","g","h","i","j","k","l","m",
                  "n","o","p","q","r","s","t","u","v","w","x","y","z">>

LowerChar(c) ==
    IF \E i \in DOMAIN UpperLetters : UpperLetters[i] = c
    THEN LowerLetters[CHOOSE i \in DOMAIN UpperLetters : UpperLetters[i] = c]
    ELSE c

\* str.lower
Lower(txt) == [i \in DOMAIN txt |-> LowerChar(txt[i])]

RECURSIVE Replace(_, _, _)
\* str.replace(old, new) for a one-character old; new is a (possibly empty) text
Replace(txt, old, new) ==
    IF txt = <<>> THEN <<>>
    ELSE (IF Head(txt) = old THEN new ELSE <<Head(txt)>>) \o Replace(Tail(txt), old, new)

----------------------------------------------------------------------------
(* get_series_name, the default extractor and sanitizer *)

\* the three pieces of the literal searched for: the DicomAttribute open tag of
\* SeriesDescription, the "\r\n      " between the tags, and <Value number="1">
search == <<"<DicomAttribute tag=0008103E vr=LO keyword=SeriesDescription>", "\r\n      ", "<Value number=1>">>
EndValue == <<"</Value>">>

get_series_name_noOffset(metadata_txt) ==
    LET txt == metadata_txt
        index == Find(txt, search)
        series_name == Lower(PySlice(txt, index, index + Find(PySlice(txt, index, Len(txt)), EndValue)))
    IN  Replace(Replace(Replace(Replace(Replace(series_name,
            "/", <<"-">>), "\\", <<"-">>), ":", <<"-">>), "?", <<>>), "*", <<>>)

get_series_name_noStar(metadata_txt) ==
    LET txt == metadata_txt
        index == Find(txt, search) + Len(search)
        series_name == Lower(PySlice(txt, index, index + Find(PySlice(txt, index, Len(txt)), EndValue)))
    IN  Replace(Replace(Replace(Replace(series_name,
            "/", <<"-">>), "\\", <<"-">>), ":", <<"-">>), "?", <<>>)

get_series_name(metadata_txt) ==
    LET txt == metadata_txt
        index == Find(txt, search) + Len(search)
        series_name == Lower(PySlice(txt, index, index + Find(PySlice(txt, index, Len(txt)), EndValue)))
    IN  Replace(Replace(Replace(Replace(Replace(series_name,
            "/", <<"-">>), "\\", <<"-">>), ":", <<"-">>), "?", <<>>), "*", <<>>)

----------------------------------------------------------------------------
(* SpecName: get_series_name applied to bounded metadata documents *)

MaxDescLen == 3

DescChars == {"a", "B", "/", "\\", ":", "?", "*", "-", "+"}

RECURSIVE TextsUpTo(_, _)
TextsUpTo(chars, n) ==
    IF n = 0 THEN {<<>>}
    ELSE LET shorter == TextsUpTo(chars, n - 1)
         IN  shorter \cup {Append(t, c) : t \in shorter, c \in chars}

\* what precedes the SeriesDescription field: nothing, or another attribute's value
DocPrefixes == {<<>>, <<"<Value number=1>", "B", "/">> \o EndValue}
\* what follows it: nothing, or another attribute's value
DocSuffixes == {<<>>, <<"<Value number=1>", "A">> \o EndValue}

\* the metadata document with the description d in its SeriesDescription field
MetadataDoc(pre, d, post) == pre \o search \o d \o EndValue \o post

Idle == [pc |-> "idle"]

InitName ==
    /\ doc \in DocPrefixes \X TextsUpTo(DescChars, MaxDescLen) \X DocSuffixes
    /\ name_out = Unset
    /\ options = Idle /\ query_terms = <<>> /\ vna = Idle
    /\ pc = "name" /\ err = "none"
    /\ cs = Idle /\ study_dict = <<>> /\ rv = Idle /\ rs = Idle
    /\ fs = Idle /\ fs0 = Idle /\ gets = NoGets

ApplyGetSeriesName ==
    /\ pc = "name"
    /\ name_out = Unset
    /\ name_out' = get_series_name(MetadataDoc(doc[1], doc[2], doc[3]))
    /\ UNCHANGED <<doc, options, query_terms, vna, pc, err, cs, study_dict, rv, rs, fs, fs0, gets>>

NextName == ApplyGetSeriesName

SpecName == InitName /\ [][NextName]_vars

----------------------------------------------------------------------------
(* The filesystem under options['save_dir'].                                *)
(* fs maps the path of a study folder (<<acc_num>> or <<mrn, acc_num>>) to  *)
(* that folder: whether it exists, its sub-folders by name, and the         *)
(* sub-folders of its "others" folder by name.                              *)

NoFile == <<"no file">>
None == <<"None">>

Others == <<"o", "t", "h", "e", "r", "s">>
UnknownProtocol == <<"U","n","k","n","o","w","n","P","r","o","t","o","c","o","l">>

NoFiles == [i \in {} |-> NoFile]
EmptyFolder == [metadata |-> NoFile, temp |-> NoFile, dcm |-> NoFiles]
NoDirs == [n \in {} |-> EmptyFolder]
Absent == [exists |-> FALSE, dirs |-> NoDirs, others |-> NoDirs]

\* a study folder left by an earlier run
OldName == <<"o", "l", "d">>
OldFolder == [metadata |-> <<"metadata", "old">>, temp |-> NoFile,
              dcm |-> [i \in {0} |-> <<"old", "old", "anonymized">>]]
OldStudy == [exists |-> TRUE, dirs |-> [n \in {OldName} |-> OldFolder], others |-> NoDirs]

\* os.path.exists(save_dir)
StudyExists(sd) == sd.exists

\* os.path.exists(save_dir + "\\" + name): the empty name gives save_dir + "\\"
DirExists(sd, name) ==
    sd.exists /\ (name = <<>> \/ name \in DOMAIN sd.dirs)

\* os.makedirs(save_dir + "\\" + name): creates save_dir too when it is missing
MakeDirs(sd, name) ==
    [exists |-> TRUE,
     dirs   |-> [n \in DOMAIN sd.dirs \cup {name} |->
                    IF n \in DOMAIN sd.dirs THEN sd.dirs[n] ELSE EmptyFolder],
     others |-> sd.others]

\* the characters Windows refuses in a file name (the separators and wildcards
\* never reach os.rename: get_series_name has replaced them)
InvalidNameChars == {"|", "<", ">"}

\* os.rename(save_dir + "\\" + src, save_dir + "\\" + dst) raises
RenameFails(sd, src, dst) ==
    \/ ~DirExists(sd, src) \/ src = <<>>
    \/ DirExists(sd, dst)
    \/ \E i \in DOMAIN dst : dst[i] \in InvalidNameChars

\* os.rename(save_dir + "\\" + src, save_dir + "\\" + dst)
Rename(sd, src, dst) ==
    [sd EXCEPT !.dirs = [n \in (DOMAIN sd.dirs \ {src}) \cup {dst} |->
                            IF n = dst THEN sd.dirs[src] ELSE sd.dirs[n]]]

\* os.rename(save_dir + "\\" + d, save_dir + "\\others\\" + d)
MoveToOthers(sd, d) ==
    [sd EXCEPT !.dirs   = [n \in DOMAIN sd.dirs \ {d} |-> sd.dirs[n]],
               !.others = [n \in DOMAIN sd.others \cup {d} |->
                              IF n = d THEN sd.dirs[d] ELSE sd.others[n]]]

RECURSIVE MoveAll(_, _)
\* for d in rmdir: os.rename(...); stops at the first rename that raises
MoveAll(sd, rmdir) ==
    IF rmdir = <<>> THEN [sd |-> sd, ok |-> TRUE]
    ELSE IF ~DirExists(sd, Head(rmdir)) \/ Head(rmdir) \in DOMAIN sd.others
         THEN [sd |-> sd, ok |-> FALSE]
         ELSE MoveAll(MoveToOthers(sd, Head(rmdir)), Tail(rmdir))

Uniquify_none(sd, series_name) == series_name

RECURSIVE Uniquify(_, _)
\* while os.path.exists(save_dir + "\\" + series_name): series_name += "+"
Uniquify(sd, series_name) ==
    IF DirExists(sd, series_name) THEN Uniquify(sd, Append(series_name, "+"))
    ELSE series_name

----------------------------------------------------------------------------
(* retrieve_studies *)

\* the calls of retrieve_study_from_id that retrieve_studies makes, in order
RECURSIVE Calls(_, _)
Calls(sdict, search_type) ==
    IF sdict = <<>> THEN <<>>
    ELSE LET e == Head(sdict)
         IN  (IF search_type = "mrn"
              THEN [i \in DOMAIN e.studies |->
                       [save_dir |-> <<e.key, e.studies[i].key>>,
                        study_id |-> e.studies[i].study_id,
                        instance_dict |-> e.studies[i].instance_dict]]
              ELSE <<[save_dir |-> <<e.key>>, study_id |-> e.study_id,
                      instance_dict |-> e.instance_dict]>>)
             \o Calls(Tail(sdict), search_type)

NoCount == -1

\* the next study of the loop: enter retrieve_study_from_id, or return
RetrieveNext ==
    /\ pc = "retrieve"
    /\ IF rv.todo = <<>>
       THEN /\ pc' = "done"
            /\ UNCHANGED <<rv, rs>>
       ELSE /\ rv' = [rv EXCEPT !.todo = Tail(rv.todo)]
            /\ rs' = [save_dir |-> Head(rv.todo).save_dir,
                      study_id |-> Head(rv.todo).study_id,
                      instance_dict |-> Head(rv.todo).instance_dict,
                      si |-> 0, series_dir |-> <<>>, series_name |-> <<>>,
                      text |-> <<>>, rmdir |-> <<>>, ci |-> 0, count |-> NoCount,
                      total |-> 0, skip_ser |-> 0, skip_inst |-> 0,
                      r_is_none |-> TRUE, skipped |-> FALSE]
            /\ pc' = "rs_exists"
    /\ UNCHANGED <<doc, name_out, options, query_terms, vna, err, cs, study_dict, fs, fs0, gets>>

----------------------------------------------------------------------------
(* retrieve_study_from_id and _retrieve_vna *)

SaveDir == fs[rs.save_dir]
Series == rs.instance_dict[rs.si]
SetSaveDir(sd) == fs' = [fs EXCEPT ![rs.save_dir] = sd]
Return == pc' = "retrieve"

SkipsStudy_never(exists, overwrite) == FALSE

\* the existing folder is left alone and the study skipped
SkipsStudy(exists, overwrite) == exists /\ ~overwrite

\* the existence check: skip the study, or remove the folder tree, or go on.
\* After shutil.rmtree the folder's own entry may still be there for a while.
RsExists ==
    /\ pc = "rs_exists"
    /\ IF SkipsStudy(StudyExists(SaveDir), options.overwrite)
       THEN Return /\ rs' = [rs EXCEPT !.skipped = TRUE] /\ UNCHANGED fs
       ELSE IF StudyExists(SaveDir)
       THEN /\ \E gone \in BOOLEAN :
                  SetSaveDir([exists |-> ~gone, dirs |-> NoDirs, others |-> NoDirs])
            /\ pc' = "rs_wait" /\ UNCHANGED rs
       ELSE pc' = "rs_series" /\ UNCHANGED <<fs, rs>>
    /\ UNCHANGED <<doc, name_out, options, query_terms, vna, err, cs, study_dict, rv, fs0, gets>>

\* while os.path.exists(save_dir): sleep(100) -- sleep is not defined in the module
\* (only time is imported), so the first iteration raises NameError
RsWait ==
    /\ pc = "rs_wait"
    /\ IF StudyExists(SaveDir) THEN Abort("NameError") ELSE pc' = "rs_series" /\ UNCHANGED err
    /\ UNCHANGED <<doc, name_out, options, query_terms, vna, cs, study_dict, rv, rs, fs, fs0, gets>>

\* for series_id in instance_dict: make the provisional folder
RsMakeDir ==
    /\ pc = "rs_series"
    /\ IF rs.si = Len(rs.instance_dict)
       THEN pc' = "rs_others" /\ UNCHANGED <<rs, fs>>
       ELSE LET series_id == rs.instance_dict[rs.si + 1].series_id
            IN  /\ rs' = [rs EXCEPT !.si = rs.si + 1, !.series_dir = series_id]
                /\ IF ~DirExists(SaveDir, series_id)
                   THEN SetSaveDir(MakeDirs(SaveDir, series_id))
                   ELSE UNCHANGED fs
                /\ pc' = "rs_metadata"
    /\ UNCHANGED <<doc, name_out, options, query_terms, vna, err, cs, study_dict, rv, fs0, gets>>

\* _retrieve_vna(..., metadata=True): None unless the status is 200, else the
\* response is written to metadata.xml in the provisional folder
RsMetadata ==
    /\ pc = "rs_metadata"
    /\ Issue(Get("metadata", <<>>, rs.study_id, Series.series_id, 0))
    /\ \E status \in Statuses :
          IF status # 200
          THEN /\ rs' = [rs EXCEPT !.skip_ser = rs.skip_ser + 1, !.r_is_none = TRUE]
               /\ pc' = "rs_series"
               /\ UNCHANGED fs
          ELSE \E d \in vna.descs :
               /\ rs' = [rs EXCEPT !.text = MetadataDoc(<<>>, d, <<>>), !.r_is_none = FALSE]
               /\ SetSaveDir([SaveDir EXCEPT !.dirs[rs.series_dir].metadata =
                                 <<"metadata", Series.series_id>>])
               /\ pc' = "rs_rename"
    /\ UNCHANGED <<doc, name_out, options, query_terms, vna, err, cs, study_dict, rv, fs0>>

\* rename the provisional folder to the series name, "+" appended while the name
\* is taken; if os.rename raises, to UnknownProtocol, "+" appended likewise
RsRename ==
    /\ pc = "rs_rename"
    /\ LET name1 == Uniquify(SaveDir, get_series_name(rs.text))
           name2 == Uniquify(SaveDir, UnknownProtocol)
       IN  IF ~RenameFails(SaveDir, rs.series_dir, name1)
           THEN /\ SetSaveDir(Rename(SaveDir, rs.series_dir, name1))
                /\ rs' = [rs EXCEPT !.series_name = name1, !.series_dir = name1]
                /\ pc' = "rs_exclude" /\ UNCHANGED err
           ELSE IF ~RenameFails(SaveDir, rs.series_dir, name2)
           THEN /\ SetSaveDir(Rename(SaveDir, rs.series_dir, name2))
                /\ rs' = [rs EXCEPT !.series_name = name2, !.series_dir = name2]
                /\ pc' = "rs_exclude" /\ UNCHANGED err
           ELSE Abort("OSError") /\ UNCHANGED <<fs, rs>>
    /\ UNCHANGED <<doc, name_out, options, query_terms, vna, cs, study_dict, rv, fs0, gets>>

\* for exc_keyword in options['exclude_terms']: if exc_keyword in series_name;
\* iterating None raises TypeError, which the bare except swallows
Excluded(exclude_terms, series_name) ==
    /\ exclude_terms # None
    /\ \E i \in DOMAIN exclude_terms : Contains(series_name, exclude_terms[i])

RsExclude ==
    /\ pc = "rs_exclude"
    /\ LET skip == Excluded(options.exclude_terms, rs.series_name)
       IN  /\ rs' = [rs EXCEPT !.skip_ser = IF skip THEN rs.skip_ser + 1 ELSE rs.skip_ser,
                               !.rmdir = IF skip THEN Append(rs.rmdir, rs.series_name) ELSE rs.rmdir,
                               !.ci = 0]
           /\ pc' = IF skip \/ options.metadata_only THEN "rs_series" ELSE "rs_instance"
    /\ UNCHANGED <<doc, name_out, options, query_terms, vna, err, cs, study_dict, rv, fs, fs0, gets>>

\* if r is not None: skip_inst += 1
CountSkipped(skip_inst, r_is_none) == IF ~r_is_none THEN skip_inst + 1 ELSE skip_inst

\* for count, instance_id in enumerate(instance_dict[series_id]): the GET of
\* _retrieve_vna; None unless the status is 200
RsInstance ==
    /\ pc = "rs_instance"
    /\ IF rs.ci = Len(Series.instances)
       THEN pc' = "rs_total" /\ UNCHANGED <<rs, gets>>
       ELSE /\ Issue(Get("wado", <<>>, rs.study_id, Series.series_id, Series.instances[rs.ci + 1]))
            /\ \E status \in Statuses :
                  IF status # 200
                  THEN /\ rs' = [rs EXCEPT !.count = rs.ci, !.ci = rs.ci + 1,
                                           !.r_is_none = TRUE,
                                           !.skip_inst = CountSkipped(rs.skip_inst, TRUE)]
                       /\ pc' = "rs_instance"
                  ELSE /\ rs' = [rs EXCEPT !.count = rs.ci, !.r_is_none = FALSE]
                       /\ pc' = "rs_temp"
    /\ UNCHANGED <<doc, name_out, options, query_terms, vna, err, cs, study_dict, rv, fs, fs0>>

\* the response is written to temp.dcm in the series folder
RsWriteTemp ==
    /\ pc = "rs_temp"
    /\ SetSaveDir([SaveDir EXCEPT !.dirs[rs.series_dir].temp =
                      <<Series.series_id, Series.instances[rs.ci + 1], "raw">>])
    /\ pc' = "rs_anonymize"
    /\ UNCHANGED <<doc, name_out, options, query_terms, vna, err, cs, study_dict, rv, rs, fs0, gets>>

Anonymized_not(payload) == payload

\* anonymize.anonymize(temp.dcm -> <count>.dcm)
Anonymized(payload) == <<payload[1], payload[2], "anonymized">>

WriteDcm(folder, count) ==
    [folder EXCEPT !.dcm = [i \in DOMAIN folder.dcm \cup {count} |->
                               IF i = count THEN Anonymized(folder.temp) ELSE folder.dcm[i]]]

RsAnonymize ==
    /\ pc = "rs_anonymize"
    /\ SetSaveDir([SaveDir EXCEPT !.dirs[rs.series_dir] = WriteDcm(@, rs.count)])
    /\ pc' = "rs_remove"
    /\ UNCHANGED <<doc, name_out, options, query_terms, vna, err, cs, study_dict, rv, rs, fs0, gets>>

\* os.remove(temp.dcm); back in the loop, r is not None
RsRemoveTemp ==
    /\ pc = "rs_remove"
    /\ SetSaveDir([SaveDir EXCEPT !.dirs[rs.series_dir].temp = NoFile])
    /\ rs' = [rs EXCEPT !.ci = rs.ci + 1, !.skip_inst = CountSkipped(rs.skip_inst, rs.r_is_none)]
    /\ pc' = "rs_instance"
    /\ UNCHANGED <<doc, name_out, options, query_terms, vna, err, cs, study_dict, rv, fs0, gets>>

\* total += count: count is unbound if no loop of this call has run an iteration
RsTotal ==
    /\ pc = "rs_total"
    /\ IF rs.count = NoCount
       THEN Abort("UnboundLocalError") /\ UNCHANGED rs
       ELSE /\ rs' = [rs EXCEPT !.total = rs.total + rs.count]
            /\ pc' = "rs_series" /\ UNCHANGED err
    /\ UNCHANGED <<doc, name_out, options, query_terms, vna, cs, study_dict, rv, fs, fs0, gets>>

\* if len(rmdir)>0 and not os.path.exists(save_dir+"\\others"): make it and move
\* every folder of rmdir into it (the loop is inside the if)
MovesExcluded(rmdir, others_exists) == Len(rmdir) > 0 /\ ~others_exists

RsOthers ==
    /\ pc = "rs_others"
    /\ IF MovesExcluded(rs.rmdir, DirExists(SaveDir, Others))
       THEN LET moved == MoveAll(MakeDirs(SaveDir, Others), rs.rmdir)
            IN  /\ SetSaveDir(moved.sd)
                /\ IF moved.ok THEN Return /\ UNCHANGED err ELSE Abort("OSError")
       ELSE Return /\ UNCHANGED <<fs, err>>
    /\ UNCHANGED <<doc, name_out, options, query_terms, vna, cs, study_dict, rv, rs, fs0, gets>>

NextRetrieve ==
    \/ RetrieveNext
    \/ RsExists
    \/ RsWait
    \/ RsMakeDir
    \/ RsMetadata
    \/ RsRename
    \/ RsExclude
    \/ RsInstance
    \/ RsWriteTemp
    \/ RsAnonymize
    \/ RsRemoveTemp
    \/ RsTotal
    \/ RsOthers

----------------------------------------------------------------------------
(* SpecRetrieve: one call of retrieve_studies on a mapping of one study *)

MaxInstances == 2

SeriesIds == {<<"1">>, <<"2">>}
InstanceLists == {[i \in 1..n |-> i] : n \in 0..MaxInstances}
SeriesEntries == [series_id : SeriesIds, instances : InstanceLists]

\* the instance mappings: no, one or two series, the keys distinct
InstanceDicts ==
    {<<>>} \cup {<<e>> : e \in SeriesEntries}
           \cup {p \in SeriesEntries \X SeriesEntries : p[1].series_id # p[2].series_id}

\* the descriptions the archive may hold for a series: empty, plain, the
\* identifier of a series, "others", and one Windows refuses as a name
RetrieveDescs == {<<>>, <<"T", "1">>, <<"2">>, Others, <<"a", "|">>}

ExcludeTerms == {None, <<<<"1">>>>}

StudyFolders == {Absent, OldStudy}

InitRetrieve ==
    /\ doc = <<>> /\ name_out = Unset
    /\ options \in [search_type : {"accnum"}, overwrite : BOOLEAN, review : {FALSE},
                    exclude_terms : ExcludeTerms, metadata_only : BOOLEAN]
    /\ query_terms = <<>>
    /\ vna = [descs |-> RetrieveDescs]
    /\ pc = "retrieve" /\ err = "none"
    /\ cs = Idle /\ study_dict = <<>>
    /\ \E idict \in InstanceDicts :
          rv = [todo |-> <<[save_dir |-> <<"E1">>, study_id |-> "S1", instance_dict |-> idict]>>]
    /\ rs = Idle
    /\ fs \in [{<<"E1">>} -> StudyFolders]
    /\ fs0 = fs
    /\ gets = NoGets

SpecRetrieve == InitRetrieve /\ [][NextRetrieve]_vars

----------------------------------------------------------------------------
(* collect_studies, _create_instance_dict and _search_vna *)

Raises_only5xx(status) == status >= 500

\* _search_vna raises ValueError on these statuses; every other status is returned
Raises(status) == status = 403 \/ status >= 500
RaisedError(status) == IF status = 403 THEN "AccessDenied" ELSE "ServerError"

NoContent_never(status) == FALSE

\* if r.status_code == 204: ... continue
NoContent(status) == status = 204

\* the response r: its status code, and whether r.json() gives what the caller
\* indexes into (a list of entries with the expected tags)
Response(status, ok) == [status_code |-> status, ok |-> ok]
NoResponse == Response(0, FALSE)

Unusable_ignored(ok) == FALSE

\* r.json(), or indexing its result, raises in _create_instance_dict: nothing
\* catches it but the except that raises again
Unusable(ok) == ~ok

permutations_identity(terms) == <<terms>>

RECURSIVE permutations(_)
RECURSIVE PermutationsFrom(_, _)
\* the permutations of terms that start with terms[i], terms[i+1], ..., in that order
PermutationsFrom(terms, i) ==
    IF i > Len(terms) THEN <<>>
    ELSE LET rest == permutations(SubSeq(terms, 1, i - 1) \o SubSeq(terms, i + 1, Len(terms)))
         IN  [j \in DOMAIN rest |-> <<terms[i]>> \o rest[j]] \o PermutationsFrom(terms, i + 1)

\* itertools.permutations(query_terms), in its order
permutations(terms) ==
    IF terms = <<>> THEN << <<>> >> ELSE PermutationsFrom(terms, 1)

\* the query of a study search: one term, or a permutation of the keywords
SearchKey(search_type, term) == IF search_type = "keyword" THEN term ELSE <<term>>

\* what the loop of collect_studies iterates over
SearchTerms(search_type, terms) ==
    IF search_type = "keyword" THEN permutations(terms) ELSE terms

RECURSIVE Position(_, _, _)
\* the position of key in the mapping d, or 0
Position(d, key, i) ==
    IF i > Len(d) THEN 0 ELSE IF d[i].key = key THEN i ELSE Position(d, key, i + 1)

HasKey(d, key) == Position(d, key, 1) # 0

\* d[key] = entry on an insertion-ordered dict: a new key goes last, an old key
\* keeps its place
DictSet(d, entry) ==
    IF HasKey(d, entry.key) THEN [d EXCEPT ![Position(d, entry.key, 1)] = entry]
    ELSE Append(d, entry)

SeqToSet_first(s) == IF s = <<>> THEN {} ELSE {s[1]}

SeqToSet(s) == {s[i] : i \in DOMAIN s}

\* for ... in query_terms: the GET of the study search and what follows it up to
\* the first _create_instance_dict
Search ==
    /\ pc = "search"
    /\ IF cs.ti = Len(cs.terms)
       THEN pc' = "collected" /\ UNCHANGED <<cs, study_dict, err, gets>>
       ELSE LET term == cs.terms[cs.ti + 1]
            IN  /\ Issue(Get("search", SearchKey(options.search_type, term), "", <<>>, 0))
                /\ \E status \in Statuses :
                      IF Raises(status)
                      THEN /\ Abort(RaisedError(status))
                           /\ cs' = [cs EXCEPT !.r = Response(status, FALSE)]
                           /\ UNCHANGED study_dict
                      ELSE IF NoContent(status)
                      THEN /\ cs' = [cs EXCEPT !.ti = cs.ti + 1, !.r = Response(status, FALSE)]
                           /\ UNCHANGED <<pc, err, study_dict>>
                      ELSE \E ok \in BOOLEAN : \E body \in vna.bodies :
                           IF ~ok \/ (options.search_type = "accnum" /\ body = <<>>)
                           THEN /\ Abort("MalformedSearch")
                                /\ cs' = [cs EXCEPT !.r = Response(status, FALSE)]
                                /\ UNCHANGED study_dict
                           ELSE /\ cs' = [cs EXCEPT !.r = Response(status, TRUE), !.pending =
                                         IF options.search_type = "accnum"
                                         THEN <<[acc |-> term, study_id |-> body[1].study_id]>>
                                         ELSE body]
                                /\ study_dict' =
                                         IF options.search_type = "mrn"
                                         THEN DictSet(study_dict, [key |-> term, studies |-> <<>>])
                                         ELSE study_dict
                                /\ pc' = "next_study" /\ UNCHANGED err
    /\ UNCHANGED <<doc, name_out, options, query_terms, vna, rv, rs, fs, fs0>>

\* for acc_num, study_id, study_info in accnums_studyids_descr
NextStudy ==
    /\ pc = "next_study"
    /\ IF cs.pending = <<>>
       THEN /\ cs' = [cs EXCEPT !.ti = cs.ti + 1]
            /\ pc' = "search"
       ELSE /\ cs' = [cs EXCEPT !.cur = Head(cs.pending), !.pending = Tail(cs.pending)]
            /\ pc' = "series_listing"
    /\ UNCHANGED <<doc, name_out, options, query_terms, vna, err, study_dict, rv, rs, fs, fs0, gets>>

\* _create_instance_dict: the GET of the series listing; r.json() failing is caught
\* and raised again (the re-raise adds a str and an exception, a TypeError)
SeriesListing ==
    /\ pc = "series_listing"
    /\ Issue(Get("series", <<>>, cs.cur.study_id, <<>>, 0))
    /\ \E status \in Statuses :
          IF Raises(status)
          THEN Abort(RaisedError(status)) /\ cs' = [cs EXCEPT !.r = Response(status, FALSE)]
          ELSE \E ok \in BOOLEAN : \E listing \in vna.listings :
               IF Unusable(ok)
               THEN Abort("MalformedListing") /\ cs' = [cs EXCEPT !.r = Response(status, ok)]
               ELSE /\ cs' = [cs EXCEPT !.r = Response(status, ok),
                                        !.series = SeqToSet(listing), !.instance_dict = <<>>]
                    /\ pc' = "instance_listing" /\ UNCHANGED err
    /\ UNCHANGED <<doc, name_out, options, query_terms, vna, study_dict, rv, rs, fs, fs0>>

\* study_dict[acc_num] = ..., or study_dict[mrn][acc_num] = ...
Store(sdict, search_type, term, cur, instance_dict) ==
    LET entry == [key |-> cur.acc, study_id |-> cur.study_id, instance_dict |-> instance_dict]
    IN  IF search_type = "mrn"
        THEN LET p == Position(sdict, term, 1)
             IN  [sdict EXCEPT ![p].studies = DictSet(@, entry)]
        ELSE DictSet(sdict, entry)

\* for series_id in series: the GET of the instance listing; the set is iterated
\* in an order the program does not choose. After the last one the mapping is
\* returned and stored.
InstanceListing ==
    /\ pc = "instance_listing"
    /\ IF cs.series = {}
       THEN /\ study_dict' = Store(study_dict, options.search_type, cs.terms[cs.ti + 1],
                                   cs.cur, cs.instance_dict)
            /\ pc' = "next_study"
            /\ UNCHANGED <<cs, err, gets>>
       ELSE \E series_id \in cs.series :
            /\ Issue(Get("instances", <<>>, cs.cur.study_id, series_id, 0))
            /\ \E status \in Statuses :
                  IF Raises(status)
                  THEN Abort(RaisedError(status)) /\ cs' = [cs EXCEPT !.r = Response(status, FALSE)]
                  ELSE \E ok \in BOOLEAN : \E instances \in vna.instance_lists :
                       IF Unusable(ok)
                       THEN Abort("MalformedListing") /\ cs' = [cs EXCEPT !.r = Response(status, ok)]
                       ELSE /\ cs' = [cs EXCEPT !.r = Response(status, ok),
                                                !.series = cs.series \ {series_id},
                                                !.instance_dict = Append(cs.instance_dict,
                                                    [series_id |-> series_id, instances |-> instances])]
                            /\ UNCHANGED <<pc, err>>
            /\ UNCHANGED study_dict
    /\ UNCHANGED <<doc, name_out, options, query_terms, vna, rv, rs, fs, fs0>>

----------------------------------------------------------------------------
(* main and review_studies *)

\* the (mrn, acc_num) or (acc_num) of every study of the mapping, in order
Choices(sdict, search_type) ==
    LET calls == Calls(sdict, search_type)
    IN  [i \in DOMAIN calls |-> calls[i].save_dir]

RECURSIVE Restrict(_, _)
\* {k: d[k] for k in keys if k in d}, in the order of d
Restrict(d, keys) ==
    IF d = <<>> THEN <<>>
    ELSE (IF Head(d).key \in keys THEN <<Head(d)>> ELSE <<>>) \o Restrict(Tail(d), keys)

\* review_studies for a selection that is not None
review_studies(sdict, search_type, selection) ==
    IF search_type = "mrn"
    THEN LET selected_mrns == {x[1] : x \in selection}
             selected_accnums == {x[2] : x \in selection}
             kept == Restrict(sdict, selected_mrns)
         IN  [i \in DOMAIN kept |->
                [kept[i] EXCEPT !.studies = Restrict(@, selected_accnums)]]
    ELSE Restrict(sdict, {x[1] : x \in selection})

AfterCollect_always ==
    /\ pc = "collected"
    /\ rv' = [todo |-> Calls(study_dict, options.search_type)]
    /\ pc' = "retrieve"
    /\ cs' = Idle
    /\ UNCHANGED <<doc, name_out, options, query_terms, vna, err, study_dict, rs, fs, fs0, gets>>

\* main after collect_studies: nothing found ends the run; the review, when asked
\* for, replaces the mapping or ends the run; then retrieve_studies starts
AfterCollect ==
    /\ pc = "collected"
    /\ IF Len(study_dict) = 0
       THEN pc' = "done" /\ UNCHANGED <<study_dict, rv>>
       ELSE IF options.review
       THEN \/ pc' = "done" /\ UNCHANGED <<study_dict, rv>>
            \/ \E selection \in SUBSET SeqToSet(Choices(study_dict, options.search_type)) :
                  LET reviewed == review_studies(study_dict, options.search_type, selection)
                  IN  /\ study_dict' = reviewed
                      /\ rv' = [todo |-> Calls(reviewed, options.search_type)]
                      /\ pc' = "retrieve"
       ELSE /\ rv' = [todo |-> Calls(study_dict, options.search_type)]
            /\ pc' = "retrieve"
            /\ UNCHANGED study_dict
    /\ cs' = Idle
    /\ UNCHANGED <<doc, name_out, options, query_terms, vna, err, rs, fs, fs0, gets>>

Next ==
    \/ Search
    \/ NextStudy
    \/ SeriesListing
    \/ InstanceListing
    \/ AfterCollect
    \/ RetrieveNext
    \/ RsExists
    \/ RsWait
    \/ RsMakeDir
    \/ RsMetadata
    \/ RsRename
    \/ RsExclude
    \/ RsInstance
    \/ RsWriteTemp
    \/ RsAnonymize
    \/ RsRemoveTemp
    \/ RsTotal
    \/ RsOthers

----------------------------------------------------------------------------
(* Spec: a whole run of main *)

MaxTerms == 2

Study1 == [acc |-> "E1", study_id |-> "S1"]
Study2 == [acc |-> "E2", study_id |-> "S2"]

\* the query terms: accession numbers, MRNs or keywords
TermNames(search_type) ==
    IF search_type = "accnum" THEN <<"E1", "E2", "E3">>
    ELSE IF search_type = "mrn" THEN <<"M1", "M2", "M3">>
    ELSE <<"K1", "K2", "K3">>

QueryTermLists(search_type) ==
    {SubSeq(TermNames(search_type), 1, n) : n \in 1..MaxTerms}

\* the study folders a run may write: save_dir\acc_num (the query term, or the
\* accession number found by keyword), or save_dir\mrn\acc_num
StudyPaths(search_type, terms) ==
    IF search_type = "accnum" THEN {<<t>> : t \in SeqToSet(terms)}
    ELSE IF search_type = "keyword" THEN {<<Study1.acc>>, <<Study2.acc>>}
    ELSE {<<t, a>> : t \in SeqToSet(terms), a \in {Study1.acc, Study2.acc}}

\* what the archive answers in a whole run: a search finds nothing or two studies,
\* a study lists no series or one, the series holds one instance
RunArchive ==
    [bodies |-> {<<>>, <<Study1, Study2>>},
     listings |-> {<<>>, <<<<"1">>>>},
     instance_lists |-> {<<1>>},
     descs |-> {<<"T", "1">>}]

Init ==
    /\ doc = <<>> /\ name_out = Unset
    /\ options \in [search_type : {"accnum", "mrn", "keyword"}, overwrite : BOOLEAN,
                    review : BOOLEAN, exclude_terms : {None}, metadata_only : {FALSE}]
    /\ query_terms \in QueryTermLists(options.search_type)
    /\ vna = RunArchive
    /\ pc = "search" /\ err = "none"
    /\ cs = [terms |-> SearchTerms(options.search_type, query_terms), ti |-> 0,
             pending |-> <<>>, cur |-> Study1, series |-> {}, instance_dict |-> <<>>,
             r |-> NoResponse]
    /\ study_dict = <<>>
    /\ rv = Idle /\ rs = Idle
    /\ \E old \in {{}} \cup {{p} : p \in StudyPaths(options.search_type, query_terms)} :
          fs = [p \in StudyPaths(options.search_type, query_terms) |->
                   IF p \in old THEN OldStudy ELSE Absent]
    /\ fs0 = fs
    /\ gets = NoGets

Spec == Init /\ [][Next]_vars

----------------------------------------------------------------------------
(* SpecCollect: one call of collect_studies *)

\* what the archive answers to collect_studies: searches that find no, one or
\* two studies, series listings with a repeated identifier, an instance listing
CollectArchive ==
    [bodies |-> {<<>>, <<Study1>>, <<Study2, Study1>>},
     listings |-> {<<>>, <<<<"2">>, <<"1">>, <<"2">>>>},
     instance_lists |-> {<<1, 2>>},
     descs |-> {}]

InitCollect ==
    /\ doc = <<>> /\ name_out = Unset
    /\ options \in [search_type : {"accnum", "mrn", "keyword"}, overwrite : {FALSE},
                    review : {FALSE}, exclude_terms : {None}, metadata_only : {FALSE}]
    /\ query_terms \in QueryTermLists(options.search_type)
    /\ vna = CollectArchive
    /\ pc = "search" /\ err = "none"
    /\ cs = [terms |-> SearchTerms(options.search_type, query_terms), ti |-> 0,
             pending |-> <<>>, cur |-> Study1, series |-> {}, instance_dict |-> <<>>,
             r |-> NoResponse]
    /\ study_dict = <<>>
    /\ rv = Idle /\ rs = Idle
    /\ fs = Idle /\ fs0 = Idle
    /\ gets = NoGets

NextCollect ==
    \/ Search
    \/ NextStudy
    \/ SeriesListing
    \/ InstanceListing

SpecCollect == InitCollect /\ [][NextCollect]_vars

----------------------------------------------------------------------------
(* C5, C6: the extractor and sanitizer *)

SanitizedChar(c) ==
    IF c \in {"/", "\\", ":"} THEN <<"-">>
    ELSE IF c \in {"?", "*"} THEN <<>>
    ELSE <<LowerChar(c)>>

RECURSIVE Sanitized(_)
Sanitized(d) == IF d = <<>> THEN <<>> ELSE SanitizedChar(Head(d)) \o Sanitized(Tail(d))

RECURSIVE Deleted(_, _)
Deleted(d, chars) ==
    IF d = <<>> THEN <<>>
    ELSE (IF Head(d) \in chars THEN <<>> ELSE <<Head(d)>>) \o Deleted(Tail(d), chars)

\* C5 as stated: the result is the lower-cased description with each of
\* / \ : ? * deleted.
C5_DeletesAllFive ==
    name_out # Unset => name_out = Deleted(Lower(doc[2]), {"/", "\\", ":", "?", "*"})

\* C5 as amended: character by character, / \ : each become "-", ? and * are
\* deleted, every other character is lower-cased; so none of the five remains.
C5_Sanitizes ==
    name_out # Unset =>
        /\ name_out = Sanitized(doc[2])
        /\ \A i \in DOMAIN name_out : name_out[i] \notin {"/", "\\", ":", "?", "*"}

\* a description holding a separator, a wildcard and an upper-case letter was sanitized
C5_Witness ==
    /\ name_out # Unset
    /\ doc[2] = <<"B", "/", "*">>
    /\ name_out = <<"b", "-">>

\* C6 as stated: the result is exactly the text between the SeriesDescription
\* value marker and the next </Value>.
C6_ExactText ==
    name_out # Unset => name_out = doc[2]

\* C6 as amended: the result is the sanitized form of the text between the first
\* SeriesDescription value marker and the next </Value>, whatever precedes the
\* marker and follows the </Value>; it is exactly that text when the text is
\* already lower-case and holds none of / \ : ? *.
C6_SanitizedText ==
    name_out # Unset =>
        /\ name_out = Sanitized(doc[2])
        /\ (\A i \in DOMAIN doc[2] : doc[2][i] \in {"a", "-", "+"}) => name_out = doc[2]

\* a description between other attributes' values was extracted
C6_Witness ==
    /\ name_out # Unset
    /\ doc[1] # <<>> /\ doc[3] # <<>>
    /\ doc[2] = <<"a", "-", "a">>
    /\ name_out = <<"a", "-", "a">>

----------------------------------------------------------------------------
(* C1, C7: a whole run *)

Retrieval == {"metadata", "wado"}

\* C1 as stated: for the study whose call was skipped at the existence check, the
\* folder is as the run found it and no GET of the run names that study.
C1_NoCallForSkippedStudy ==
    (rs # Idle /\ rs.skipped) =>
        /\ fs[rs.save_dir] = fs0[rs.save_dir]
        /\ \A g \in DOMAIN gets : g.study # rs.study_id

\* C1 as amended: the call for a study whose folder exists with overwrite disabled
\* returns at the check without a GET and without touching the filesystem; with
\* overwrite disabled no folder the run found is ever changed; and when no other
\* folder of the run holds the same study, the run issues no metadata or instance
\* GET for it. The search and enumeration GETs for the study were issued before,
\* by collect_studies.
C1_SkippedCallIssuesNothing ==
    [][/\ (pc = "rs_exists" /\ SaveDir.exists /\ ~options.overwrite) =>
              (pc' = "retrieve" /\ gets' = gets /\ fs' = fs)
       /\ ~options.overwrite =>
              \A k \in DOMAIN fs : fs0[k].exists => fs'[k] = fs0[k]
       /\ (pc' = "done" /\ ~options.overwrite) =>
              LET calls == Calls(study_dict', options.search_type)
              IN  \A i \in DOMAIN calls :
                      (/\ fs0[calls[i].save_dir].exists
                       /\ \A j \in DOMAIN calls : j # i => calls[j].study_id # calls[i].study_id)
                      => \A g \in DOMAIN gets' :
                             g.req \in Retrieval => g.study # calls[i].study_id]_vars

\* a run ended in which a study was skipped after its series listing had been requested
C1_Witness ==
    /\ pc = "done" /\ rs # Idle /\ rs.skipped
    /\ fs = fs0
    /\ \E g \in DOMAIN gets : g.req = "series" /\ g.study = rs.study_id

\* C7: a 403 answer to a search or enumeration GET ends the run with the access
\* error; after it no GET is issued and the filesystem is not written, and nothing
\* was retrieved or written before it.
C7_ForbiddenEndsRun ==
    [][/\ (pc \in {"search", "series_listing", "instance_listing"} /\ gets' # gets
           /\ cs'.r.status_code = 403) => (pc' = "aborted" /\ err' = "AccessDenied")
       /\ err = "AccessDenied" => (gets' = gets /\ fs' = fs)
       /\ err' = "AccessDenied" =>
              /\ pc' = "aborted" /\ fs' = fs0
              /\ \A g \in DOMAIN gets' : g.req \notin Retrieval]_vars

\* a 403 ended the run after an entry had been collected and before the last term
C7_Witness ==
    /\ err = "AccessDenied" /\ pc = "aborted"
    /\ Len(study_dict) > 0
    /\ cs.ti + 1 < Len(cs.terms)

----------------------------------------------------------------------------
(* C8, C10: collect_studies *)

\* C8: a 204 answer to a study search stores nothing for that term, leaves the
\* entries collected so far as they are, and the loop goes on to the next term.
C8_NoContentSkipsTerm ==
    [][(pc = "search" /\ gets' # gets /\ cs'.r.status_code = 204) =>
          /\ pc' = "search" /\ err' = "none"
          /\ study_dict' = study_dict
          /\ cs'.ti = cs.ti + 1]_vars

\* the first MRN had no studies, the second was searched and has its entry
C8_Witness ==
    /\ pc = "collected" /\ options.search_type = "mrn"
    /\ query_terms = <<"M1", "M2">>
    /\ ~HasKey(study_dict, "M1") /\ HasKey(study_dict, "M2")
    /\ study_dict[1].studies # <<>>

\* C10 as stated: a series or instance listing that cannot be used does not end
\* collect_studies: the study is skipped and the loop goes on.
C10_MalformedListingSkipsStudy ==
    err # "MalformedListing"

\* C10 as amended: a series or instance listing that cannot be used raises out of
\* _create_instance_dict and collect_studies: the run ends there, no entry is
\* stored for the study, and no GET follows for the remaining studies and terms.
C10_MalformedListingEndsRun ==
    [][/\ (pc \in {"series_listing", "instance_listing"} /\ gets' # gets
           /\ ~Raises(cs'.r.status_code) /\ ~cs'.r.ok) =>
              (pc' = "aborted" /\ err' = "MalformedListing" /\ study_dict' = study_dict)
       /\ err = "MalformedListing" => (gets' = gets /\ study_dict' = study_dict)]_vars

\* a listing that cannot be used ended the run with a study still to enumerate
C10_Witness ==
    /\ err = "MalformedListing" /\ pc = "aborted"
    /\ cs.pending # <<>>
    /\ cs.ti + 1 < Len(cs.terms)

----------------------------------------------------------------------------
(* C2, C3, C4, C9: retrieve_study_from_id *)

\* the call of retrieve_study_from_id for the study folder k has ended
Finished(k) == rs # Idle /\ rs.save_dir = k /\ pc \in {"retrieve", "done", "aborted"}

\* C2: a study folder that exists when overwrite is enabled is removed, the call
\* waits until it is gone (it does not fail while waiting), and the folder is there
\* again, without its old content, when the call has ended - for every instance
\* mapping, the empty one included.
C2_RemovedThenRecreated ==
    \A k \in DOMAIN fs :
        (options.overwrite /\ fs0[k].exists /\ Finished(k)) =>
            /\ err # "NameError"
            /\ err = "none" => (fs[k].exists /\ OldName \notin DOMAIN fs[k].dirs)

\* C3: when retrieve_study_from_id has returned, every series it found excluded
\* is under others\ and no longer directly under the study folder.
C3_ExcludedUnderOthers ==
    \A k \in DOMAIN fs :
        (Finished(k) /\ err = "none") =>
            \A i \in DOMAIN rs.rmdir :
                /\ rs.rmdir[i] \in DOMAIN fs[k].others
                /\ rs.rmdir[i] \notin DOMAIN fs[k].dirs

\* C4: sibling series folders are never shared: the provisional folder a series'
\* metadata is about to be written into holds no file of another series, so no
\* series folder is overwritten or merged with another.
C4_NoSharedFolder ==
    pc = "rs_metadata" => SaveDir.dirs[rs.series_dir] = EmptyFolder

\* C9: a failed instance fetch adds exactly one to skip_inst and changes nothing
\* on disk, and the loop goes on; a successful fetch does not add to skip_inst.
C9_SkippedCountsFailures ==
    [][/\ (pc = "rs_instance" /\ gets' # gets /\ rs'.r_is_none) =>
              (rs'.skip_inst = rs.skip_inst + 1 /\ fs' = fs
               /\ pc' = "rs_instance" /\ rs'.ci = rs.ci + 1)
       /\ (pc \in {"rs_instance", "rs_temp", "rs_anonymize", "rs_remove"}
           /\ ~(pc = "rs_instance" /\ gets' # gets /\ rs'.r_is_none)) =>
              rs'.skip_inst = rs.skip_inst]_vars

----------------------------------------------------------------------------
(* C11, C12: the files of a series folder *)

\* every folder of every study, directly under it or under others
Folders ==
    UNION {{fs[k].dirs[n] : n \in DOMAIN fs[k].dirs} \cup
           {fs[k].others[n] : n \in DOMAIN fs[k].others} : k \in DOMAIN fs}

\* C11: for a fetched instance the raw payload is in temp.dcm before it is
\* anonymized, the numbered file holds the anonymized form of temp.dcm before
\* temp.dcm is removed, and outside these steps no folder holds a temp.dcm; every
\* numbered file always holds an anonymized payload.
C11_TempAnonymizeRemove ==
    /\ pc = "rs_anonymize" =>
           SaveDir.dirs[rs.series_dir].temp =
               <<Series.series_id, Series.instances[rs.ci + 1], "raw">>
    /\ pc = "rs_remove" =>
           /\ SaveDir.dirs[rs.series_dir].temp =
                  <<Series.series_id, Series.instances[rs.ci + 1], "raw">>
           /\ SaveDir.dirs[rs.series_dir].dcm[rs.count] =
                  <<Series.series_id, Series.instances[rs.ci + 1], "anonymized">>
    /\ pc \in {"rs_temp", "rs_anonymize", "rs_remove"} => ~rs.r_is_none
    /\ \A f \in Folders :
           /\ pc \notin {"rs_anonymize", "rs_remove"} => f.temp = NoFile
           /\ \A i \in DOMAIN f.dcm : f.dcm[i][3] = "anonymized"

\* two instances of a series were fetched, anonymized and their temp.dcm removed
C11_Witness ==
    /\ pc = "rs_instance" /\ rs.ci = 2
    /\ DOMAIN SaveDir.dirs[rs.series_dir].dcm = {0, 1}
    /\ SaveDir.dirs[rs.series_dir].temp = NoFile
    /\ \A i \in {0, 1} :
           SaveDir.dirs[rs.series_dir].dcm[i] = <<Series.series_id, i + 1, "anonymized">>

\* C12 as stated: when the instance loop of a series ends, the numbered files of
\* its folder are 0.dcm .. (k-1).dcm with no gaps, k the number of files.
C12_NumberedWithoutGaps ==
    pc = "rs_total" =>
        LET files == DOMAIN SaveDir.dirs[rs.series_dir].dcm
        IN  files = 0 .. (Cardinality(files) - 1)

----------------------------------------------------------------------------
(* C13, C14: the requests of collect_studies *)

\* the sum of f over the keys in S
RECURSIVE SumOver(_, _)
SumOver(f, S) ==
    IF S = {} THEN 0
    ELSE LET x == CHOOSE y \in S : TRUE IN f[x] + SumOver(f, S \ {x})

Issued(req) == SumOver(gets, {g \in DOMAIN gets : g.req = req})

SearchFor(key) == Get("search", key, "", <<>>, 0)

\* every ordering of all the terms
Arrangements(terms) ==
    {p \in [DOMAIN terms -> {terms[i] : i \in DOMAIN terms}] :
        \A i, j \in DOMAIN terms : i # j => p[i] # p[j]}

\* C13 as stated: when collect_studies returns, one search GET was issued for
\* each query term, and no other.
C13_OneSearchPerTerm ==
    pc = "collected" =>
        /\ \A i \in DOMAIN query_terms :
               /\ SearchFor(<<query_terms[i]>>) \in DOMAIN gets
               /\ gets[SearchFor(<<query_terms[i]>>)] = 1
        /\ Issued("search") = Len(query_terms)

\* C13 as amended: by accession number or MRN, one search GET per query term; by
\* keyword, one search GET per ordering of the whole list of keywords, each
\* naming all the keywords in that order; and no other search GET.
C13_OneSearchPerTermOrOrdering ==
    pc = "collected" =>
        LET keys == IF options.search_type = "keyword"
                    THEN Arrangements(query_terms)
                    ELSE {<<query_terms[i]>> : i \in DOMAIN query_terms}
        IN  /\ \A key \in keys : SearchFor(key) \in DOMAIN gets /\ gets[SearchFor(key)] = 1
            /\ Issued("search") = Cardinality(keys)

\* a search by two keywords returned after searching both orderings
C13_Witness ==
    /\ pc = "collected" /\ options.search_type = "keyword"
    /\ query_terms = <<"K1", "K2">>
    /\ gets[SearchFor(<<"K2", "K1">>)] = 1
    /\ Len(study_dict) > 0

CountIn(bag, g) == IF g \in DOMAIN bag THEN bag[g] ELSE 0
IssuedIn(bag, req) == SumOver(bag, {g \in DOMAIN bag : g.req = req})

SeriesGet(study_id) == Get("series", <<>>, study_id, <<>>, 0)
InstancesGet(study_id, series_id) == Get("instances", <<>>, study_id, series_id, 0)

\* the keys of an instance mapping
Keys(idict) == {idict[i].series_id : i \in DOMAIN idict}

\* the entry stored for the study cur under the query term
Stored(sdict, search_type, term, cur) ==
    IF search_type = "mrn"
    THEN LET studies == sdict[Position(sdict, term, 1)].studies
         IN  studies[Position(studies, cur.acc, 1)]
    ELSE sdict[Position(sdict, cur.acc, 1)]

\* C14: a call of _create_instance_dict issues one series-listing GET for the
\* study and takes the set of the identifiers listed; then each step issues one
\* instance-listing GET for one identifier not yet asked for and maps it to the
\* list answered; it returns, with no further GET, when every identifier has been
\* asked for, and the mapping stored has one key per distinct identifier listed.
C14_OneListingPerSeries ==
    [][/\ (pc = "series_listing" /\ pc' = "instance_listing") =>
              /\ CountIn(gets', SeriesGet(cs.cur.study_id)) =
                     CountIn(gets, SeriesGet(cs.cur.study_id)) + 1
              /\ IssuedIn(gets', "series") = IssuedIn(gets, "series") + 1
              /\ IssuedIn(gets', "instances") = IssuedIn(gets, "instances")
              /\ cs'.instance_dict = <<>>
       /\ (pc = "instance_listing" /\ pc' = "instance_listing") =>
              \E series_id \in cs.series :
                  /\ series_id \notin Keys(cs.instance_dict)
                  /\ cs'.series = cs.series \ {series_id}
                  /\ CountIn(gets', InstancesGet(cs.cur.study_id, series_id)) =
                         CountIn(gets, InstancesGet(cs.cur.study_id, series_id)) + 1
                  /\ IssuedIn(gets', "instances") = IssuedIn(gets, "instances") + 1
                  /\ IssuedIn(gets', "series") = IssuedIn(gets, "series")
                  /\ \E instances \in vna.instance_lists :
                         cs'.instance_dict = Append(cs.instance_dict,
                             [series_id |-> series_id, instances |-> instances])
       /\ pc' = "instance_listing" =>
              \E listing \in vna.listings :
                  /\ Keys(cs'.instance_dict) \cup cs'.series =
                         {listing[i] : i \in DOMAIN listing}
                  /\ Keys(cs'.instance_dict) \cap cs'.series = {}
       /\ (pc = "instance_listing" /\ pc' = "next_study") =>
              /\ gets' = gets
              /\ cs.series = {}
              /\ Cardinality(Keys(cs.instance_dict)) = Len(cs.instance_dict)
              /\ Stored(study_dict', options.search_type, cs.terms[cs.ti + 1],
                        cs.cur).instance_dict = cs.instance_dict]_vars

\* a study whose listing named series 2, 1 and 2 again was enumerated with one
\* series-listing GET and two instance-listing GETs
C14_Witness ==
    /\ pc = "collected" /\ options.search_type = "accnum"
    /\ query_terms = <<"E1">>
    /\ Len(study_dict) = 1
    /\ Keys(study_dict[1].instance_dict) = {<<"1">>, <<"2">>}
    /\ Len(study_dict[1].instance_dict) = 2
    /\ \A i \in {1, 2} : study_dict[1].instance_dict[i].instances = <<1, 2>>
    /\ IssuedIn(gets, "series") = 1
    /\ IssuedIn(gets, "instances") = 2

----------------------------------------------------------------------------
(* C15, C16, C18: the folders of a study *)

\* C15 as stated: when the call for a study has returned, every series folder of
\* the study, directly under it or under others, holds a metadata.xml (the others
\* folder itself is not a series folder unless a series has that name).
C15_EveryFolderHasMetadata ==
    \A k \in DOMAIN fs : (Finished(k) /\ err = "none") =>
        /\ \A n \in DOMAIN fs[k].dirs \ {Others} : fs[k].dirs[n].metadata # NoFile
        /\ \A n \in DOMAIN fs[k].others : fs[k].others[n].metadata # NoFile

\* name with n marker characters appended
WithPlus(name, n) == name \o [i \in 1..n |-> "+"]

\* C16: when the rename of the provisional folder to the series name raises, the
\* folder is renamed to UnknownProtocol with "+" appended until the name is not
\* taken in the study folder; it keeps its content, the series goes on to the
\* exclusion check under that name, and the run is not ended.
C16_FallsBackToUnknownProtocol ==
    [][(/\ pc = "rs_rename"
        /\ RenameFails(SaveDir, rs.series_dir, Uniquify(SaveDir, get_series_name(rs.text)))) =>
          \E n \in 0..Len(rs.instance_dict) :
              LET name == WithPlus(UnknownProtocol, n)
              IN  /\ \A m \in 0..(n - 1) : WithPlus(UnknownProtocol, m) \in DOMAIN SaveDir.dirs
                  /\ name \notin DOMAIN SaveDir.dirs
                  /\ rs'.series_name = name /\ rs'.series_dir = name
                  /\ DOMAIN fs'[rs.save_dir].dirs =
                         (DOMAIN SaveDir.dirs \ {rs.series_dir}) \cup {name}
                  /\ fs'[rs.save_dir].dirs[name] = SaveDir.dirs[rs.series_dir]
                  /\ pc' = "rs_exclude" /\ err' = "none"
                  /\ rs'.si = rs.si /\ rs'.instance_dict = rs.instance_dict]_vars

\* the second series whose name Windows refuses was filed under UnknownProtocol+
C16_Witness ==
    /\ pc = "rs_exclude" /\ rs.si = 2
    /\ rs.series_name = WithPlus(UnknownProtocol, 1)
    /\ DOMAIN SaveDir.dirs = {UnknownProtocol, WithPlus(UnknownProtocol, 1)}
    /\ SaveDir.dirs[rs.series_name].metadata = <<"metadata", Series.series_id>>

----------------------------------------------------------------------------
(* C17: the order of the steps of main *)

Collecting == {"search", "series", "instances"}

\* 1 collect_studies, 2 the review, 3 retrieve_studies, 4 the run has ended
Phase(p) ==
    IF p \in {"search", "next_study", "series_listing", "instance_listing"} THEN 1
    ELSE IF p = "collected" THEN 2
    ELSE IF p \in {"done", "aborted"} THEN 4
    ELSE 3

\* the kinds of GET issued by a step from the bag before to the bag after
IssuedBy(before, after) ==
    {g.req : g \in {x \in DOMAIN after : CountIn(after, x) # CountIn(before, x)}}

\* C17: the run never goes back to an earlier phase; a search or enumeration GET
\* is issued only by collect_studies, before any retrieval GET and any write; the
\* review issues nothing and writes nothing; a retrieval GET or a write happens
\* only in retrieve_studies; and a run that found nothing, or whose review was
\* cancelled, ends without a retrieval GET or a write.
C17_DownwardPipeline ==
    [][/\ Phase(pc') >= Phase(pc)
       /\ IssuedBy(gets, gets') \cap Collecting # {} =>
              /\ Phase(pc) = 1 /\ fs' = fs0
              /\ \A g \in DOMAIN gets' : g.req \in Collecting
       /\ (IssuedBy(gets, gets') \cap Retrieval # {} \/ fs' # fs) =>
              /\ Phase(pc) = 3 /\ rv # Idle
              /\ IssuedBy(gets, gets') \cap Collecting = {}
       /\ Phase(pc) = 2 => (gets' = gets /\ fs' = fs)
       /\ (pc = "collected" /\ Len(study_dict) = 0) => pc' = "done"
       /\ (pc' = "done" /\ rv' = Idle) =>
              /\ fs' = fs0
              /\ \A g \in DOMAIN gets' : g.req \in Collecting]_vars

\* a run searched, was reviewed, and retrieved and wrote an instance
C17_Witness ==
    /\ pc = "done" /\ options.review /\ rv # Idle
    /\ fs # fs0
    /\ IssuedIn(gets, "search") > 0 /\ IssuedIn(gets, "instances") > 0
    /\ IssuedIn(gets, "metadata") > 0 /\ IssuedIn(gets, "wado") > 0

----------------------------------------------------------------------------
(* C18: exclusion and the instance requests *)

WadoGet(study_id, series_id, instance_id) == Get("wado", <<>>, study_id, series_id, instance_id)

\* C18 as stated, for a call with no exclude terms and metadata_only unset in
\* which no series was skipped: when the call has ended, every instance of every
\* series of the study has been requested.
C18_NonExcludedFullyRequested ==
    \A k \in DOMAIN fs :
        (/\ Finished(k) /\ ~rs.skipped /\ err # "NameError"
         /\ options.exclude_terms = None /\ ~options.metadata_only
         /\ rs.skip_ser = 0) =>
            \A i \in DOMAIN rs.instance_dict :
                \A j \in DOMAIN rs.instance_dict[i].instances :
                    WadoGet(rs.study_id, rs.instance_dict[i].series_id,
                            rs.instance_dict[i].instances[j]) \in DOMAIN gets

----------------------------------------------------------------------------
(* SpecReview: one call of review_studies *)

MaxAccs == 3

AccNames == <<"E1", "E2", "E3", "E4">>
MrnNames == <<"M1", "M2">>

\* the entry of the study with the i-th accession number
AccEntry(i) ==
    [key |-> AccNames[i], study_id |-> <<"S", i>>, instance_dict |-> <<>>]

\* the mappings from accession number to study, keys in increasing order
AccDicts ==
    {LET In(i) == i \in S
         kept == SelectSeq([i \in 1..MaxAccs |-> i], In)
     IN  [j \in DOMAIN kept |-> AccEntry(kept[j])] : S \in SUBSET (1..MaxAccs)}

\* the mappings review_studies is called with: by accession number, or by MRN
\* with the same accession numbers possibly under several MRNs
ReviewInputs(search_type) ==
    IF search_type = "mrn"
    THEN UNION {[1..n -> AccDicts] : n \in 1..Len(MrnNames)}
    ELSE AccDicts \ {<<>>}

MrnDict(studies) == [i \in DOMAIN studies |-> [key |-> MrnNames[i], studies |-> studies[i]]]

InitReview ==
    /\ doc = <<>> /\ name_out = Unset
    /\ options \in [search_type : {"accnum", "mrn", "keyword"}, overwrite : {FALSE},
                    review : {TRUE}, exclude_terms : {None}, metadata_only : {FALSE}]
    /\ query_terms = <<>> /\ vna = Idle
    /\ pc = "review" /\ err = "none"
    /\ cs = Idle
    /\ \E input \in ReviewInputs(options.search_type) :
          study_dict = IF options.search_type = "mrn" THEN MrnDict(input) ELSE input
    /\ rv = Idle /\ rs = Idle
    /\ fs = Idle /\ fs0 = Idle
    /\ gets = NoGets

\* study_info = review_studies(study_info, options['search_type']): the operator
\* cancels the dialog, or selects some of the choices; rv keeps the mapping passed
\* and what was selected
ApplyReview ==
    /\ pc = "review"
    /\ \/ /\ rv' = [selection |-> {}, returned_none |-> TRUE, input |-> study_dict]
          /\ UNCHANGED study_dict
       \/ \E selection \in SUBSET SeqToSet(Choices(study_dict, options.search_type)) :
          /\ rv' = [selection |-> selection, returned_none |-> FALSE, input |-> study_dict]
          /\ study_dict' = review_studies(study_dict, options.search_type, selection)
    /\ pc' = "reviewed"
    /\ UNCHANGED <<doc, name_out, options, query_terms, vna, err, cs, rs, fs, fs0, gets>>

NextReview == ApplyReview

SpecReview == InitReview /\ [][NextReview]_vars

\* C19 as stated: a review that was not cancelled returns, by accession number or
\* keyword, exactly the selected accession numbers with their entries, and by MRN
\* only pairs of MRN and accession number that were selected.
C19_OnlySelectedPairs ==
    (pc = "reviewed" /\ ~rv.returned_none) =>
        IF options.search_type = "mrn"
        THEN SeqToSet(Choices(study_dict, "mrn")) \subseteq rv.selection
        ELSE /\ SeqToSet(Choices(study_dict, options.search_type)) = rv.selection
             /\ SeqToSet(study_dict) \subseteq SeqToSet(rv.input)

====
